---- MODULE Spec2Model ----
(***************************************************************************)
(* A model of the blog API: the in-memory store (database.MemoryStore,     *)
(* src/unnamed/part_001) and the request handler (handler.PostHandler,     *)
(* src/internal/handler/post.go).                                          *)
(*                                                                         *)
(* Strings are tuples of one-character strings, so that TrimPrefix,        *)
(* ParseInt, ToLower and Contains are computed as the Go library computes  *)
(* them.  A *model.Post is an address into heap; s.posts maps ids to       *)
(* addresses.  A Post that only one goroutine can reach (the handler's     *)
(* `var post` before line 36 of CreatePost puts it in the map) is kept in  *)
(* that goroutine's frame and gets its address when it enters the map.     *)
(* Each goroutine p runs one request (or one direct store call) at a time; *)
(* pc[p] is its position inside the store method, hpc[p] its position in   *)
(* the handler.                                                            *)
(***************************************************************************)
EXTENDS Integers, Sequences, FiniteSets, TLC

VARIABLES
    posts,      \* s.posts: id -> address of the Post
    nextID,     \* s.nextID
    mu,         \* s.mu: [writer, readers, queue, announced, blocked]
    heap,       \* the Post objects reachable through pointers: address -> Post
    clock,      \* what time.Now().UTC() returns
    pc,         \* per goroutine: position in the store method it runs
    frame,      \* per goroutine: arguments, locals and results of that method
    hpc,        \* per goroutine: position in the handler
    req,        \* per goroutine: the request being served
    enc,        \* per goroutine: json.Encoder progress over the value it writes
    resp,       \* per goroutine: the response written
    returned,   \* history: the ids CreatePost has returned, in order of return
    deleted     \* history: the ids whose DeletePost removed a post

vars == <<posts, nextID, mu, heap, clock, pc, frame, hpc, req, enc, resp, returned, deleted>>

(***************************************************************************)
(* Bounds of the model.                                                    *)
(***************************************************************************)
\* CreatePost calls that may start (caps s.nextID at MaxCreates + 1).
MaxCreates == 2
\* The clock runs from 1 to MaxClock.
MaxClock == 2

\* Goroutines.  All of them run CreatePost in SpecCreate; the first two serve
\* requests in Spec and call the store in SpecStore; three call it in SpecFair.
NumProcs == 3
Procs == 1..NumProcs
Servers == {1, 2}
NoProc == 0

(***************************************************************************)
(* Strings.                                                                *)
(***************************************************************************)
Upper == <<"A","B","C","D","E","F","G","H","I","J","K","L","M",
           "N","O","P","Q","R","S","T","U","V","W","X","Y","Z">>
Lower == <<"a","b","c","d","e","f","g","h","i","j","k","l","m",
           "n","o","p","q","r","s","t","u","v","w","x","y","z">>
Digits == <<"0","1","2","3","4","5","6","7","8","9">>

\* strings.HasPrefix
HasPrefix(s, prefix) ==
    /\ Len(s) >= Len(prefix)
    /\ SubSeq(s, 1, Len(prefix)) = prefix

\* strings.TrimPrefix: s without the leading prefix, s itself when it has none
TrimPrefix(s, prefix) ==
    IF HasPrefix(s, prefix) THEN SubSeq(s, Len(prefix) + 1, Len(s)) ELSE s

\* strings.ToLower on one ASCII character
ToLowerChar(c) ==
    IF \E i \in 1..Len(Upper) : Upper[i] = c
    THEN Lower[CHOOSE i \in 1..Len(Upper) : Upper[i] = c]
    ELSE c

\* strings.ToLower
ToLower(s) == [i \in 1..Len(s) |-> ToLowerChar(s[i])]

\* strings.Contains
Contains(s, substr) ==
    \E i \in 0..(Len(s) - Len(substr)) : SubSeq(s, i + 1, i + Len(substr)) = substr

IsDigit(c) == \E i \in 1..Len(Digits) : Digits[i] = c
DigitVal(c) == (CHOOSE i \in 1..Len(Digits) : Digits[i] = c) - 1

RECURSIVE StripZeros(_)
StripZeros(ds) ==
    IF Len(ds) > 1 /\ ds[1] = "0" THEN StripZeros(Tail(ds)) ELSE ds

\* the value of a digit string (used for at most 9 significant digits)
RECURSIVE DecValue(_)
DecValue(ds) ==
    IF ds = <<>> THEN 0
    ELSE 10 * DecValue(SubSeq(ds, 1, Len(ds) - 1)) + DigitVal(ds[Len(ds)])

\* lexicographic a <= b for digit strings of equal length
RECURSIVE DigitsLeq(_, _)
DigitsLeq(a, b) ==
    IF a = <<>> THEN TRUE
    ELSE IF DigitVal(a[1]) < DigitVal(b[1]) THEN TRUE
    ELSE IF DigitVal(a[1]) > DigitVal(b[1]) THEN FALSE
    ELSE DigitsLeq(Tail(a), Tail(b))

\* the digits of 1<<63, the cutoff of a 64-bit ParseInt
Cutoff63 == <<"9","2","2","3","3","7","2","0","3","6","8","5","4","7","7","5","8","0","8">>

\* magnitude m (digits without leading zeros) <= 2^63 - 1 + slack, slack \in {0,1}
FitsInt64(m, neg) ==
    \/ Len(m) < Len(Cutoff63)
    \/ /\ Len(m) = Len(Cutoff63)
       /\ DigitsLeq(m, Cutoff63)
       /\ (neg \/ m # Cutoff63)

\* strconv.ParseInt(s, 10, 64): [err |-> TRUE] on a syntax or range error,
\* else the value.  An optional sign, then one or more decimal digits.
ParseInt(s) ==
    LET neg == s # <<>> /\ s[1] = "-"
        signed == s # <<>> /\ s[1] \in {"+", "-"}
        ds == IF signed THEN Tail(s) ELSE s
        m == StripZeros(ds)
    IN  IF s = <<>> \/ ds = <<>> THEN [err |-> TRUE, val |-> 0]
        ELSE IF \E i \in 1..Len(ds) : ~IsDigit(ds[i]) THEN [err |-> TRUE, val |-> 0]
        ELSE IF ~FitsInt64(m, neg) THEN [err |-> TRUE, val |-> 0]
        ELSE [err |-> FALSE, val |-> IF neg THEN 0 - DecValue(m) ELSE DecValue(m)]

(***************************************************************************)
(* model.Post and the values clients send.                                 *)
(***************************************************************************)
MkPost(id, title, content, category, tags, createdAt, updatedAt) ==
    [ID |-> id, Title |-> title, Content |-> content, Category |-> category,
     Tags |-> tags, CreatedAt |-> createdAt, UpdatedAt |-> updatedAt]

\* the zero value of model.Post (`var post model.Post`)
ZeroPost == MkPost(0, <<>>, <<>>, <<>>, <<>>, 0, 0)

DraftA == MkPost(0, <<"G","o">>, <<"a">>, <<"T">>, << <<"x">> >>, 0, 0)
DraftB == MkPost(0, <<"C">>, <<"b">>, <<>>, <<>>, 0, 0)
Drafts == {DraftA, DraftB}

\* the four fields a draft carries
Fields(p) == <<p.Title, p.Content, p.Category, p.Tags>>

ErrNil == "nil"
ErrNotFound == "not found"

(***************************************************************************)
(* NewMemoryStore and the initial state.                                   *)
(***************************************************************************)
NoRet == [id |-> 0, ptr |-> 0, list |-> <<>>, err |-> ErrNil]
IdleFrame == [op |-> "none", id |-> 0, term |-> <<>>, post |-> ZeroPost,
              ptr |-> 0, ret |-> NoRet]
NoReq == [method |-> "", path |-> <<>>, term |-> <<>>, hasTerm |-> FALSE,
          body |-> [malformed |-> FALSE, has |-> {}, val |-> ZeroPost]]
NoResp == [status |-> 0, kind |-> "none", body |-> <<>>]
NoEnc == [ptrs |-> <<>>, k |-> 0, cur |-> ZeroPost]

NewMemoryStore ==
    /\ posts = <<>>
    /\ nextID = 1
    /\ mu = [writer |-> NoProc, readers |-> {}, queue |-> <<>>, announced |-> FALSE,
             blocked |-> {}]

Init ==
    /\ NewMemoryStore
    /\ heap = <<>>
    /\ clock = 1
    /\ pc = [p \in Procs |-> "idle"]
    /\ frame = [p \in Procs |-> IdleFrame]
    /\ hpc = [p \in Procs |-> "idle"]
    /\ req = [p \in Procs |-> NoReq]
    /\ enc = [p \in Procs |-> NoEnc]
    /\ resp = [p \in Procs |-> NoResp]
    /\ returned = <<>>
    /\ deleted = {}

\* time.Now() advances on its own
Tick ==
    /\ clock < MaxClock
    /\ clock' = clock + 1
    /\ UNCHANGED <<posts, nextID, mu, heap, pc, frame, hpc, req, enc, resp, returned, deleted>>

(***************************************************************************)
(* s.mu, a sync.RWMutex.                                                   *)
(***************************************************************************)
\* where each method calls s.mu.Lock() and where it goes once it holds it
AfterLock ==
    [CreatePost_29 |-> "CreatePost_32", UpdatePost_76 |-> "UpdatePost_79",
     DeletePost_98 |-> "DeletePost_101"]
\* the same for s.mu.RLock()
AfterRLock == [GetPost_44 |-> "GetPost_47", GetAllPosts_56 |-> "GetAllPosts_59"]
\* the returns of the methods that hold the lock exclusively (defer s.mu.Unlock())
UnlockAt == {"CreatePost_39", "UpdatePost_81", "UpdatePost_93", "DeletePost_103",
             "DeletePost_107"}
\* the returns of the methods that hold it shared (defer s.mu.RUnlock())
RUnlockAt == {"GetPost_49", "GetPost_51", "GetAllPosts_71"}

\* mutant: a Lock() that excludes nobody
CanLockAlways(m) == TRUE

\* Lock() returns only when no goroutine holds the lock in either mode
CanLock(m) == m.writer = NoProc /\ m.readers = {}
\* mutant: an RLock() that does not wait for the writer
CanRLockAlways(m) == TRUE

\* RLock() returns only when no goroutine holds the lock exclusively
CanRLock(m) == m.writer = NoProc

MuLock(p) ==
    /\ pc[p] \in DOMAIN AfterLock
    /\ CanLock(mu)
    /\ mu' = [mu EXCEPT !.writer = p]
    /\ pc' = [pc EXCEPT ![p] = AfterLock[pc[p]]]
    /\ UNCHANGED <<posts, nextID, heap, clock, frame, hpc, req, enc, resp, returned, deleted>>

MuRLock(p) ==
    /\ pc[p] \in DOMAIN AfterRLock
    /\ CanRLock(mu)
    /\ mu' = [mu EXCEPT !.readers = @ \cup {p}]
    /\ pc' = [pc EXCEPT ![p] = AfterRLock[pc[p]]]
    /\ UNCHANGED <<posts, nextID, heap, clock, frame, hpc, req, enc, resp, returned, deleted>>

\* what is left of a method's frame once it has returned: its results
Returned(f) == [IdleFrame EXCEPT !.op = f.op, !.ret = f.ret]

\* the deferred Unlock(), which runs when the method's return statement has
\* set the results and before the method returns to its caller
MuUnlock(p) ==
    /\ pc[p] \in UnlockAt
    /\ mu' = [mu EXCEPT !.writer = NoProc]
    /\ pc' = [pc EXCEPT ![p] = "returning"]
    /\ UNCHANGED <<posts, nextID, heap, clock, frame, hpc, req, enc, resp, returned, deleted>>

\* the deferred RUnlock()
MuRUnlock(p) ==
    /\ pc[p] \in RUnlockAt
    /\ mu' = [mu EXCEPT !.readers = @ \ {p}]
    /\ pc' = [pc EXCEPT ![p] = "returning"]
    /\ UNCHANGED <<posts, nextID, heap, clock, frame, hpc, req, enc, resp, returned, deleted>>

\* the method returns to its caller, the lock released; a CreatePost that
\* returns hands its id to the caller
MethodReturn(p) ==
    /\ pc[p] = "returning"
    /\ pc' = [pc EXCEPT ![p] = "ret"]
    /\ frame' = [frame EXCEPT ![p] = Returned(frame[p])]
    /\ returned' = IF frame[p].op = "CreatePost"
                   THEN Append(returned, frame[p].ret.id) ELSE returned
    /\ UNCHANGED <<posts, nextID, mu, heap, clock, hpc, req, enc, resp, deleted>>

(***************************************************************************)
(* MemoryStore.CreatePost                                                  *)
(***************************************************************************)
\* mutant: the new post takes the lowest id that is free
CreatePost_32_LowestFree(p) ==
    LET free == {i \in 1..nextID : i \notin DOMAIN posts}
        id == CHOOSE i \in free : \A j \in free : i <= j
    IN  /\ pc[p] = "CreatePost_32"
        /\ frame' = [frame EXCEPT ![p].post.ID = id, ![p].post.CreatedAt = clock]
        /\ pc' = [pc EXCEPT ![p] = "CreatePost_34"]
        /\ UNCHANGED <<posts, nextID, mu, heap, clock, hpc, req, enc, resp, returned, deleted>>

\* post.ID = s.nextID; post.CreatedAt = time.Now().UTC()
CreatePost_32(p) ==
    /\ pc[p] = "CreatePost_32"
    /\ frame' = [frame EXCEPT ![p].post.ID = nextID, ![p].post.CreatedAt = clock]
    /\ pc' = [pc EXCEPT ![p] = "CreatePost_34"]
    /\ UNCHANGED <<posts, nextID, mu, heap, clock, hpc, req, enc, resp, returned, deleted>>

\* mutant: the entry goes under the key after the one asked for
MapPutShifted(m, key, ptr) == ((key + 1) :> ptr) @@ m

\* the map after s.posts[key] = ptr
MapPut(m, key, ptr) == (key :> ptr) @@ m

\* mutant: s.nextID++ moved before s.posts[s.nextID] = post
CreatePost_34_KeyAfterIncrement(p) ==
    LET post == [frame[p].post EXCEPT !.UpdatedAt = clock]
        ptr == Len(heap) + 1
    IN  /\ pc[p] = "CreatePost_34"
        /\ heap' = Append(heap, post)
        /\ posts' = MapPut(posts, nextID + 1, ptr)
        /\ nextID' = nextID + 1
        /\ frame' = [frame EXCEPT ![p].post = post, ![p].ptr = ptr,
                                  ![p].ret = [NoRet EXCEPT !.id = post.ID]]
        /\ pc' = [pc EXCEPT ![p] = "CreatePost_39"]
        /\ UNCHANGED <<mu, clock, hpc, req, enc, resp, returned, deleted>>

\* post.UpdatedAt = time.Now().UTC(); s.posts[post.ID] = post; s.nextID++;
\* the result is post.ID
CreatePost_34(p) ==
    LET post == [frame[p].post EXCEPT !.UpdatedAt = clock]
        ptr == Len(heap) + 1
    IN  /\ pc[p] = "CreatePost_34"
        /\ heap' = Append(heap, post)
        /\ posts' = MapPut(posts, post.ID, ptr)
        /\ nextID' = nextID + 1
        /\ frame' = [frame EXCEPT ![p].post = post, ![p].ptr = ptr,
                                  ![p].ret = [NoRet EXCEPT !.id = post.ID]]
        /\ pc' = [pc EXCEPT ![p] = "CreatePost_39"]
        /\ UNCHANGED <<mu, clock, hpc, req, enc, resp, returned, deleted>>

(***************************************************************************)
(* MemoryStore.GetPost                                                     *)
(***************************************************************************)
\* post, ok := s.posts[id]
Lookup(m, id) ==
    IF id \in DOMAIN m THEN [ok |-> TRUE, ptr |-> m[id]] ELSE [ok |-> FALSE, ptr |-> 0]

\* mutant: a get that stamps the post it finds
GetPost_47_Stamp(p) ==
    LET r == Lookup(posts, frame[p].id)
    IN  /\ pc[p] = "GetPost_47"
        /\ heap' = IF r.ok THEN [heap EXCEPT ![r.ptr].UpdatedAt = clock] ELSE heap
        /\ frame' = [frame EXCEPT ![p].ret =
                        IF r.ok THEN [NoRet EXCEPT !.ptr = r.ptr]
                        ELSE [NoRet EXCEPT !.err = ErrNotFound]]
        /\ pc' = [pc EXCEPT ![p] = IF r.ok THEN "GetPost_51" ELSE "GetPost_49"]
        /\ UNCHANGED <<posts, nextID, mu, clock, hpc, req, enc, resp, returned, deleted>>

GetPost_47(p) ==
    LET r == Lookup(posts, frame[p].id)
    IN  /\ pc[p] = "GetPost_47"
        /\ frame' = [frame EXCEPT ![p].ret =
                        IF r.ok THEN [NoRet EXCEPT !.ptr = r.ptr]
                        ELSE [NoRet EXCEPT !.err = ErrNotFound]]
        /\ pc' = [pc EXCEPT ![p] = IF r.ok THEN "GetPost_51" ELSE "GetPost_49"]
        /\ UNCHANGED <<posts, nextID, mu, heap, clock, hpc, req, enc, resp, returned, deleted>>

(***************************************************************************)
(* MemoryStore.GetAllPosts                                                 *)
(***************************************************************************)
\* mutant: a search that looks into the tags as well
MatchesTagsToo(post, term) ==
    \/ term = <<>>
    \/ Contains(ToLower(post.Title), ToLower(term))
    \/ Contains(ToLower(post.Content), ToLower(term))
    \/ Contains(ToLower(post.Category), ToLower(term))
    \/ \E i \in 1..Len(post.Tags) : Contains(ToLower(post.Tags[i]), ToLower(term))

\* the condition of the loop body, lines 63-66
Matches(post, term) ==
    \/ term = <<>>
    \/ Contains(ToLower(post.Title), ToLower(term))
    \/ Contains(ToLower(post.Content), ToLower(term))
    \/ Contains(ToLower(post.Category), ToLower(term))

\* the orders in which `range s.posts` may visit the keys in S
Orders(S) ==
    {o \in [1..Cardinality(S) -> S] : \A i, j \in 1..Cardinality(S) : o[i] = o[j] => i = j}

\* the slice the loop builds when it visits the keys in order o
RECURSIVE Collect(_, _, _, _)
Collect(o, m, h, term) ==
    IF o = <<>> THEN <<>>
    ELSE LET rest == Collect(Tail(o), m, h, term)
         IN  IF Matches(h[m[o[1]]], term) THEN <<m[o[1]]>> \o rest ELSE rest

GetAllPosts_59(p) ==
    /\ pc[p] = "GetAllPosts_59"
    /\ \E o \in Orders(DOMAIN posts) :
          frame' = [frame EXCEPT ![p].ret =
                       [NoRet EXCEPT !.list = Collect(o, posts, heap, frame[p].term)]]
    /\ pc' = [pc EXCEPT ![p] = "GetAllPosts_71"]
    /\ UNCHANGED <<posts, nextID, mu, heap, clock, hpc, req, enc, resp, returned, deleted>>

(***************************************************************************)
(* MemoryStore.UpdatePost                                                  *)
(***************************************************************************)
\* mutant: an update of an id that is not there stores the draft under it
UpdatePost_79_Upsert(p) ==
    LET r == Lookup(posts, frame[p].id)
        ptr == IF r.ok THEN r.ptr ELSE Len(heap) + 1
    IN  /\ pc[p] = "UpdatePost_79"
        /\ heap' = IF r.ok THEN heap ELSE Append(heap, frame[p].post)
        /\ posts' = IF r.ok THEN posts ELSE MapPut(posts, frame[p].id, ptr)
        /\ frame' = [frame EXCEPT ![p].ptr = ptr, ![p].ret = NoRet]
        /\ pc' = [pc EXCEPT ![p] = "UpdatePost_85"]
        /\ UNCHANGED <<nextID, mu, clock, hpc, req, enc, resp, returned, deleted>>

\* existingPost, ok := s.posts[id]; if !ok { return nil, not found }
UpdatePost_79(p) ==
    LET r == Lookup(posts, frame[p].id)
    IN  /\ pc[p] = "UpdatePost_79"
        /\ frame' = [frame EXCEPT ![p].ptr = r.ptr,
                        ![p].ret = IF r.ok THEN NoRet ELSE [NoRet EXCEPT !.err = ErrNotFound]]
        /\ pc' = [pc EXCEPT ![p] = IF r.ok THEN "UpdatePost_85" ELSE "UpdatePost_81"]
        /\ UNCHANGED <<posts, nextID, mu, heap, clock, hpc, req, enc, resp, returned, deleted>>

\* mutant: an update that copies the whole struct (*existingPost = *post)
UpdatePost_85_WholeStruct(p) ==
    /\ pc[p] = "UpdatePost_85"
    /\ heap' = [heap EXCEPT ![frame[p].ptr] = frame[p].post]
    /\ pc' = [pc EXCEPT ![p] = "UpdatePost_86"]
    /\ UNCHANGED <<posts, nextID, mu, clock, frame, hpc, req, enc, resp, returned, deleted>>

\* existingPost.Title = post.Title
UpdatePost_85(p) ==
    /\ pc[p] = "UpdatePost_85"
    /\ heap' = [heap EXCEPT ![frame[p].ptr].Title = frame[p].post.Title]
    /\ pc' = [pc EXCEPT ![p] = "UpdatePost_86"]
    /\ UNCHANGED <<posts, nextID, mu, clock, frame, hpc, req, enc, resp, returned, deleted>>

\* mutant: an update that writes the content into every post
UpdatePost_86_AllPosts(p) ==
    /\ pc[p] = "UpdatePost_86"
    /\ heap' = [a \in DOMAIN heap |-> [heap[a] EXCEPT !.Content = frame[p].post.Content]]
    /\ pc' = [pc EXCEPT ![p] = "UpdatePost_87"]
    /\ UNCHANGED <<posts, nextID, mu, clock, frame, hpc, req, enc, resp, returned, deleted>>

\* existingPost.Content = post.Content
UpdatePost_86(p) ==
    /\ pc[p] = "UpdatePost_86"
    /\ heap' = [heap EXCEPT ![frame[p].ptr].Content = frame[p].post.Content]
    /\ pc' = [pc EXCEPT ![p] = "UpdatePost_87"]
    /\ UNCHANGED <<posts, nextID, mu, clock, frame, hpc, req, enc, resp, returned, deleted>>

\* existingPost.Category = post.Category
UpdatePost_87(p) ==
    /\ pc[p] = "UpdatePost_87"
    /\ heap' = [heap EXCEPT ![frame[p].ptr].Category = frame[p].post.Category]
    /\ pc' = [pc EXCEPT ![p] = "UpdatePost_88"]
    /\ UNCHANGED <<posts, nextID, mu, clock, frame, hpc, req, enc, resp, returned, deleted>>

\* existingPost.Tags = post.Tags
UpdatePost_88(p) ==
    /\ pc[p] = "UpdatePost_88"
    /\ heap' = [heap EXCEPT ![frame[p].ptr].Tags = frame[p].post.Tags]
    /\ pc' = [pc EXCEPT ![p] = "UpdatePost_89"]
    /\ UNCHANGED <<posts, nextID, mu, clock, frame, hpc, req, enc, resp, returned, deleted>>

\* mutant: an update that stamps both timestamps
UpdatePost_89_Restamp(p) ==
    /\ pc[p] = "UpdatePost_89"
    /\ heap' = [heap EXCEPT ![frame[p].ptr].UpdatedAt = clock,
                            ![frame[p].ptr].CreatedAt = clock]
    /\ posts' = MapPut(posts, frame[p].id, frame[p].ptr)
    /\ frame' = [frame EXCEPT ![p].ret = [NoRet EXCEPT !.ptr = frame[p].ptr]]
    /\ pc' = [pc EXCEPT ![p] = "UpdatePost_93"]
    /\ UNCHANGED <<nextID, mu, clock, hpc, req, enc, resp, returned, deleted>>

\* existingPost.UpdatedAt = time.Now().UTC(); s.posts[id] = existingPost;
\* the result is existingPost
UpdatePost_89(p) ==
    /\ pc[p] = "UpdatePost_89"
    /\ heap' = [heap EXCEPT ![frame[p].ptr].UpdatedAt = clock]
    /\ posts' = MapPut(posts, frame[p].id, frame[p].ptr)
    /\ frame' = [frame EXCEPT ![p].ret = [NoRet EXCEPT !.ptr = frame[p].ptr]]
    /\ pc' = [pc EXCEPT ![p] = "UpdatePost_93"]
    /\ UNCHANGED <<nextID, mu, clock, hpc, req, enc, resp, returned, deleted>>

(***************************************************************************)
(* MemoryStore.DeletePost                                                  *)
(***************************************************************************)
\* mutant: a delete that empties the map
MapDeleteAll(m, id) == <<>>

\* the map after delete(s.posts, id)
MapDelete(m, id) == [k \in DOMAIN m \ {id} |-> m[k]]

\* mutant: a delete that gives the id back (s.nextID--)
DeletePost_101_ReuseID(p) ==
    LET r == Lookup(posts, frame[p].id)
    IN  /\ pc[p] = "DeletePost_101"
        /\ posts' = IF r.ok THEN MapDelete(posts, frame[p].id) ELSE posts
        /\ nextID' = IF r.ok THEN nextID - 1 ELSE nextID
        /\ frame' = [frame EXCEPT ![p].ret =
                        IF r.ok THEN NoRet ELSE [NoRet EXCEPT !.err = ErrNotFound]]
        /\ pc' = [pc EXCEPT ![p] = IF r.ok THEN "DeletePost_107" ELSE "DeletePost_103"]
        /\ deleted' = IF r.ok THEN deleted \cup {frame[p].id} ELSE deleted
        /\ UNCHANGED <<mu, heap, clock, hpc, req, enc, resp, returned>>

\* _, ok := s.posts[id]; if !ok { return not found }; delete(s.posts, id)
DeletePost_101(p) ==
    LET r == Lookup(posts, frame[p].id)
    IN  /\ pc[p] = "DeletePost_101"
        /\ posts' = IF r.ok THEN MapDelete(posts, frame[p].id) ELSE posts
        /\ frame' = [frame EXCEPT ![p].ret =
                        IF r.ok THEN NoRet ELSE [NoRet EXCEPT !.err = ErrNotFound]]
        /\ pc' = [pc EXCEPT ![p] = IF r.ok THEN "DeletePost_107" ELSE "DeletePost_103"]
        /\ deleted' = IF r.ok THEN deleted \cup {frame[p].id} ELSE deleted
        /\ UNCHANGED <<nextID, mu, heap, clock, hpc, req, enc, resp, returned>>

\* a step of the store method goroutine p is in, GetAllPosts apart
KeyedStoreStep(p) ==
    \/ MuLock(p)
    \/ MuRLock(p)
    \/ MuUnlock(p)
    \/ MuRUnlock(p)
    \/ MethodReturn(p)
    \/ CreatePost_32(p)
    \/ CreatePost_34(p)
    \/ GetPost_47(p)
    \/ UpdatePost_79(p)
    \/ UpdatePost_85(p)
    \/ UpdatePost_86(p)
    \/ UpdatePost_87(p)
    \/ UpdatePost_88(p)
    \/ UpdatePost_89(p)
    \/ DeletePost_101(p)

\* a step of the store method goroutine p is in
StoreStep(p) == KeyedStoreStep(p) \/ GetAllPosts_59(p)

(***************************************************************************)
(* Direct callers of the store (SpecStore, SpecCreate).                    *)
(***************************************************************************)
\* the ids and search terms callers and clients ask for
Ids == 1..MaxCreates
Terms == {<<>>, <<"g","O">>, <<"x">>}

\* CreatePost calls that have started: those that took an id and those about to
CreatesStarted ==
    (nextID - 1)
    + Cardinality({q \in Procs : pc[q] \in {"CreatePost_29", "CreatePost_32", "CreatePost_34"}})

\* a goroutine that is in no store method and serves no request
Free(p) == pc[p] = "idle" /\ hpc[p] = "idle"

\* a direct caller has used the results of its call
CallerReturn(p) ==
    /\ pc[p] = "ret"
    /\ hpc[p] = "idle"
    /\ pc' = [pc EXCEPT ![p] = "idle"]
    /\ frame' = [frame EXCEPT ![p] = IdleFrame]
    /\ UNCHANGED <<posts, nextID, mu, heap, clock, hpc, req, enc, resp, returned, deleted>>

\* s.CreatePost(&draft)
CallCreatePost(p, draft) ==
    /\ frame' = [frame EXCEPT ![p] = [IdleFrame EXCEPT !.op = "CreatePost", !.post = draft]]
    /\ pc' = [pc EXCEPT ![p] = "CreatePost_29"]
    /\ UNCHANGED <<posts, nextID, mu, heap, clock, hpc, req, enc, resp, returned, deleted>>

\* s.GetPost(id)
CallGetPost(p, id) ==
    /\ frame' = [frame EXCEPT ![p] = [IdleFrame EXCEPT !.op = "GetPost", !.id = id]]
    /\ pc' = [pc EXCEPT ![p] = "GetPost_44"]
    /\ UNCHANGED <<posts, nextID, mu, heap, clock, hpc, req, enc, resp, returned, deleted>>

\* s.GetAllPosts(term)
CallGetAllPosts(p, term) ==
    /\ frame' = [frame EXCEPT ![p] = [IdleFrame EXCEPT !.op = "GetAllPosts", !.term = term]]
    /\ pc' = [pc EXCEPT ![p] = "GetAllPosts_56"]
    /\ UNCHANGED <<posts, nextID, mu, heap, clock, hpc, req, enc, resp, returned, deleted>>

\* s.UpdatePost(id, &draft)
CallUpdatePost(p, id, draft) ==
    /\ frame' = [frame EXCEPT ![p] =
                    [IdleFrame EXCEPT !.op = "UpdatePost", !.id = id, !.post = draft]]
    /\ pc' = [pc EXCEPT ![p] = "UpdatePost_76"]
    /\ UNCHANGED <<posts, nextID, mu, heap, clock, hpc, req, enc, resp, returned, deleted>>

\* s.DeletePost(id)
CallDeletePost(p, id) ==
    /\ frame' = [frame EXCEPT ![p] = [IdleFrame EXCEPT !.op = "DeletePost", !.id = id]]
    /\ pc' = [pc EXCEPT ![p] = "DeletePost_98"]
    /\ UNCHANGED <<posts, nextID, mu, heap, clock, hpc, req, enc, resp, returned, deleted>>

\* a caller starts any of the five operations
Call(p) ==
    /\ Free(p)
    /\ \/ \E d \in Drafts : CreatesStarted < MaxCreates /\ CallCreatePost(p, d)
       \/ \E id \in Ids : CallGetPost(p, id)
       \/ \E t \in Terms : CallGetAllPosts(p, t)
       \/ \E id \in Ids, d \in Drafts : CallUpdatePost(p, id, d)
       \/ \E id \in Ids : CallDeletePost(p, id)

\* a caller whose only call is one CreatePost
CallCreateOnce(p) ==
    /\ Free(p)
    /\ \E d \in Drafts : CallCreatePost(p, d)

NextStore == Tick \/ \E p \in Servers : Call(p) \/ CallerReturn(p) \/ StoreStep(p)

\* the store under concurrent callers of all five operations
SpecStore == Init /\ [][NextStore]_vars

\* a caller among concurrent ones starts any of the five operations: it
\* creates from DraftA and updates to DraftB
CallAmongOthers(p) ==
    /\ Free(p)
    /\ \/ CreatesStarted < MaxCreates /\ CallCreatePost(p, DraftA)
       \/ \E id \in Ids : CallGetPost(p, id)
       \/ \E t \in Terms : CallGetAllPosts(p, t)
       \/ \E id \in Ids : CallUpdatePost(p, id, DraftB)
       \/ \E id \in Ids : CallDeletePost(p, id)

NextStoreUntimed ==
    \E p \in Servers : CallAmongOthers(p) \/ CallerReturn(p) \/ StoreStep(p)

\* the store under concurrent callers while the clock stands still
SpecStoreUntimed == Init /\ [][NextStoreUntimed]_vars

NextStoreSeq == Tick \/ Call(1) \/ CallerReturn(1) \/ StoreStep(1)

\* the store under one caller: every sequence of the five operations
SpecStoreSeq == Init /\ [][NextStoreSeq]_vars

NextCreate ==
    \/ Tick
    \/ \E p \in Procs :
          \/ CallCreateOnce(p)
          \/ MuLock(p)
          \/ CreatePost_32(p)
          \/ CreatePost_34(p)
          \/ MuUnlock(p)
          \/ MethodReturn(p)

\* an empty store and NumProcs concurrent CreatePost calls, nothing else
SpecCreate == Init /\ [][NextCreate]_vars

(***************************************************************************)
(* s.mu in full, for the progress of the callers (SpecFair).               *)
(*                                                                         *)
(* MuLock and MuRLock above say when Lock() and RLock() may return, which  *)
(* is all that safety needs.  Which of the waiting goroutines gets the     *)
(* lock is decided by the mutex itself, as sync.RWMutex does it: writers   *)
(* queue on rw.w (a sync.Mutex, which hands over in arrival order once a   *)
(* waiter has waited long); the writer holding rw.w announces itself       *)
(* (readerCount -= rwmutexMaxReaders) and waits for the readers then       *)
(* inside; an RLock() that arrives after the announcement sleeps until     *)
(* that writer's Unlock(), which admits all sleeping readers before the    *)
(* next writer can announce.  Every acquisition below satisfies CanLock    *)
(* or CanRLock, so the behaviours of this mutex are among those of MuLock  *)
(* and MuRLock.                                                            *)
(***************************************************************************)
InQueue(m, p) == \E i \in 1..Len(m.queue) : m.queue[i] = p

\* Lock(), first half: rw.w.Lock(), the writer joins the queue for rw.w
RWLockQueue(p) ==
    /\ pc[p] \in DOMAIN AfterLock
    /\ ~InQueue(mu, p)
    /\ mu' = [mu EXCEPT !.queue = Append(@, p)]
    /\ UNCHANGED <<posts, nextID, heap, clock, pc, frame, hpc, req, enc, resp, returned, deleted>>

\* Lock(), the writer that holds rw.w announces itself to the readers
RWLockAnnounce(p) ==
    /\ pc[p] \in DOMAIN AfterLock
    /\ mu.queue # <<>> /\ Head(mu.queue) = p
    /\ ~mu.announced
    /\ mu' = [mu EXCEPT !.announced = TRUE]
    /\ UNCHANGED <<posts, nextID, heap, clock, pc, frame, hpc, req, enc, resp, returned, deleted>>

\* Lock() returns: the readers that were inside have left
RWLock(p) ==
    /\ pc[p] \in DOMAIN AfterLock
    /\ mu.queue # <<>> /\ Head(mu.queue) = p
    /\ mu.announced
    /\ CanLock(mu)
    /\ mu' = [mu EXCEPT !.writer = p]
    /\ pc' = [pc EXCEPT ![p] = AfterLock[pc[p]]]
    /\ UNCHANGED <<posts, nextID, heap, clock, frame, hpc, req, enc, resp, returned, deleted>>

\* the deferred Unlock(): the sleeping readers are admitted, then rw.w is
\* released
RWUnlock(p) ==
    /\ pc[p] \in UnlockAt
    /\ mu' = [mu EXCEPT !.writer = NoProc, !.readers = mu.blocked, !.blocked = {},
                        !.announced = FALSE, !.queue = Tail(@)]
    /\ pc' = [pc EXCEPT ![p] = "returning"]
    /\ UNCHANGED <<posts, nextID, heap, clock, frame, hpc, req, enc, resp, returned, deleted>>

\* mutant: readers wait only for a writer that holds the lock, not for one
\* that has announced itself
ReaderSleepsOnlyIfHeld(m) == m.writer # NoProc

\* RLock() sleeps when a writer has announced itself (readerCount < 0)
ReaderSleeps(m) == m.announced

\* RLock(), first half: readerCount.Add(1); the reader is inside, or sleeps
RWRLockArrive(p) ==
    /\ pc[p] \in DOMAIN AfterRLock
    /\ p \notin mu.readers \cup mu.blocked
    /\ mu' = IF ReaderSleeps(mu) THEN [mu EXCEPT !.blocked = @ \cup {p}]
                                 ELSE [mu EXCEPT !.readers = @ \cup {p}]
    /\ UNCHANGED <<posts, nextID, heap, clock, pc, frame, hpc, req, enc, resp, returned, deleted>>

\* RLock() returns
RWRLock(p) ==
    /\ pc[p] \in DOMAIN AfterRLock
    /\ p \in mu.readers
    /\ CanRLock(mu)
    /\ pc' = [pc EXCEPT ![p] = AfterRLock[pc[p]]]
    /\ UNCHANGED <<posts, nextID, mu, heap, clock, frame, hpc, req, enc, resp, returned, deleted>>

\* a step of the store method goroutine p is in, under the mutex in full
FairStoreStep(p) ==
    \/ RWLockQueue(p)
    \/ RWLockAnnounce(p)
    \/ RWLock(p)
    \/ RWUnlock(p)
    \/ RWRLockArrive(p)
    \/ RWRLock(p)
    \/ MuRUnlock(p)
    \/ MethodReturn(p)
    \/ CreatePost_32(p)
    \/ CreatePost_34(p)
    \/ GetPost_47(p)
    \/ GetAllPosts_59(p)
    \/ UpdatePost_79(p)
    \/ UpdatePost_85(p)
    \/ UpdatePost_86(p)
    \/ UpdatePost_87(p)
    \/ UpdatePost_88(p)
    \/ UpdatePost_89(p)
    \/ DeletePost_101(p)

\* a caller starts any of the five operations, on post 1 where it takes an
\* id; one CreatePost is called, so that post 1 is there for a while, and the
\* other four are called for ever
FairCall(p) ==
    /\ Free(p)
    /\ \/ CreatesStarted = 0 /\ CallCreatePost(p, DraftB)
       \/ CallGetPost(p, 1)
       \/ CallGetAllPosts(p, <<>>)
       \/ CallUpdatePost(p, 1, DraftB)
       \/ CallDeletePost(p, 1)

\* the goroutines that call the store in SpecFair: enough for a writer and
\* two readers that overlap, and for a reader and two writers
Callers == {1, 2, 3}

NextFair == \E p \in Callers : FairCall(p) \/ CallerReturn(p) \/ FairStoreStep(p)

\* the store under callers that may call for ever, each goroutine that is
\* inside a method being scheduled again and again
SpecFair ==
    /\ Init
    /\ [][NextFair]_vars
    /\ \A p \in Callers : WF_vars(FairStoreStep(p))

(***************************************************************************)
(* Requests.                                                               *)
(***************************************************************************)
StatusOK == 200
StatusMovedPermanently == 301
StatusCreated == 201
StatusNoContent == 204
StatusBadRequest == 400
StatusNotFound == 404
StatusMethodNotAllowed == 405
StatusInternalServerError == 500

\* the prefix ServeHTTP trims, "/posts/"
PostsPrefix == <<"/","p","o","s","t","s","/">>
PathPosts == <<"/","p","o","s","t","s">>
PathOf(token) == PostsPrefix \o token
\* the path of the health check, and a path no pattern of the mux matches
PathHealth == <<"/","h","e","a","l","t","h">>
PathRoot == <<"/">>

\* what follows "/posts/" in the paths clients ask for: nothing, ids, a negative
\* number, a word, and 2^63
Tokens == {<<>>, <<"1">>, <<"2">>, <<"-","1">>, <<"x">>, Cutoff63}
Paths == {PathPosts} \cup {PathOf(t) : t \in Tokens}

Methods == {"GET", "POST", "PUT", "DELETE", "PATCH"}

\* A request body: text that is not JSON, or a JSON object with the keys in
\* `has`, whose values are the fields of `val`.
MkBody(malformed, has, val) == [malformed |-> malformed, has |-> has, val |-> val]
\* an empty body, which does not decode (io.EOF)
NoBody == MkBody(TRUE, {}, ZeroPost)
BodyA == MkBody(FALSE, {"title", "content", "category", "tags"}, DraftA)
BodyB == MkBody(FALSE, {"title", "content"}, DraftB)
BodyNoTitle == MkBody(FALSE, {"content"}, DraftA)
BodyNoContent == MkBody(FALSE, {"title", "content"}, [DraftB EXCEPT !.Content = <<>>])
\* BodyB with an id and timestamps of the client's choosing
BodyForged == MkBody(FALSE, {"id", "title", "content", "createdAt", "updatedAt"},
                     [DraftB EXCEPT !.ID = 2, !.CreatedAt = 2, !.UpdatedAt = 1])
Bodies == {NoBody, BodyA, BodyB, BodyNoTitle, BodyNoContent, BodyForged}

MkReq(method, path, hasTerm, term, body) ==
    [method |-> method, path |-> path, hasTerm |-> hasTerm, term |-> term, body |-> body]

\* the requests a caller hands to PostHandler.ServeHTTP
Requests ==
    {MkReq(m, path, FALSE, <<>>, NoBody) : m \in {"GET", "DELETE", "PATCH"}, path \in Paths}
    \cup {MkReq("GET", path, TRUE, t, NoBody) :
              path \in {PathPosts, PathOf(<<>>)}, t \in Terms \ {<<>>}}
    \cup {MkReq(m, path, FALSE, <<>>, b) : m \in {"POST", "PUT"}, path \in Paths, b \in Bodies}

\* the requests clients send to the server: those, and requests for the
\* health check and for a path outside "/posts/"
ServerRequests ==
    Requests
    \cup {MkReq(m, path, FALSE, <<>>, NoBody) :
              m \in {"GET", "POST"}, path \in {PathHealth, PathRoot}}

\* json.NewDecoder(r.Body).Decode(&post) into a zero Post: the keys the object
\* has overwrite the fields, the others keep their zero value
Decode(b) ==
    [err |-> b.malformed,
     post |-> IF b.malformed THEN ZeroPost
              ELSE MkPost(IF "id" \in b.has THEN b.val.ID ELSE 0,
                          IF "title" \in b.has THEN b.val.Title ELSE <<>>,
                          IF "content" \in b.has THEN b.val.Content ELSE <<>>,
                          IF "category" \in b.has THEN b.val.Category ELSE <<>>,
                          IF "tags" \in b.has THEN b.val.Tags ELSE <<>>,
                          IF "createdAt" \in b.has THEN b.val.CreatedAt ELSE 0,
                          IF "updatedAt" \in b.has THEN b.val.UpdatedAt ELSE 0)]

\* r.URL.Query().Get("term"): the empty string when the query has no term
QueryTerm(r) == IF r.hasTerm THEN r.term ELSE <<>>

(***************************************************************************)
(* PostHandler                                                             *)
(***************************************************************************)
MkResp(status, kind, body) == [status |-> status, kind |-> kind, body |-> body]

\* http.Error(w, text, status), or a WriteHeader with no body: the request is done
Reply(p, r, status, kind) ==
    /\ hpc' = [hpc EXCEPT ![p] = "done"]
    /\ req' = [req EXCEPT ![p] = r]
    /\ resp' = [resp EXCEPT ![p] = MkResp(status, kind, <<>>)]
    /\ enc' = [enc EXCEPT ![p] = NoEnc]
    /\ pc' = [pc EXCEPT ![p] = "idle"]
    /\ frame' = [frame EXCEPT ![p] = IdleFrame]
    /\ UNCHANGED <<posts, nextID, mu, heap, clock, returned, deleted>>

\* the handler calls a store method: at, the handler line that waits for it;
\* entry, the method's first line; f, its arguments
CallStore(p, r, at, entry, f) ==
    /\ hpc' = [hpc EXCEPT ![p] = at]
    /\ req' = [req EXCEPT ![p] = r]
    /\ resp' = [resp EXCEPT ![p] = NoResp]
    /\ enc' = [enc EXCEPT ![p] = NoEnc]
    /\ pc' = [pc EXCEPT ![p] = entry]
    /\ frame' = [frame EXCEPT ![p] = f]
    /\ UNCHANGED <<posts, nextID, mu, heap, clock, returned, deleted>>

\* w.WriteHeader(status); json.NewEncoder(w).Encode(v), v one *Post or a slice
\* of them: the encoder then reads the Posts through the pointers
StartEncode(p, status, kind, ptrs) ==
    /\ hpc' = [hpc EXCEPT ![p] = IF ptrs = <<>> THEN "done" ELSE "encode"]
    /\ resp' = [resp EXCEPT ![p] = MkResp(status, kind, <<>>)]
    /\ enc' = [enc EXCEPT ![p] = [NoEnc EXCEPT !.ptrs = ptrs]]
    /\ pc' = [pc EXCEPT ![p] = "idle"]
    /\ frame' = [frame EXCEPT ![p] = IdleFrame]
    /\ UNCHANGED <<posts, nextID, mu, heap, clock, req, returned, deleted>>

\* mutant: a validation that forgets the content
InvalidTitleOnly(post) == post.Title = <<>>

\* post.Title == "" || post.Content == ""
Invalid(post) == post.Title = <<>> \/ post.Content = <<>>

\* CreatePost, lines 60-72: decode, validate, h.Store.CreatePost(&post)
HCreatePost(p, r) ==
    LET d == Decode(r.body)
    IN  IF d.err THEN Reply(p, r, StatusBadRequest, "error")
        ELSE IF Invalid(d.post) THEN Reply(p, r, StatusBadRequest, "error")
        ELSE /\ CreatesStarted < MaxCreates
             /\ CallStore(p, r, "CreatePost_72", "CreatePost_29",
                          [IdleFrame EXCEPT !.op = "CreatePost", !.post = d.post])

\* CreatePost, lines 73-79: a failed create is a 500; else h.Store.GetPost(id)
HCreatePost_73(p) ==
    /\ hpc[p] = "CreatePost_72"
    /\ pc[p] = "ret"
    /\ IF frame[p].ret.err # ErrNil
       THEN Reply(p, req[p], StatusInternalServerError, "error")
       ELSE CallStore(p, req[p], "CreatePost_79", "GetPost_44",
                      [IdleFrame EXCEPT !.op = "GetPost", !.id = frame[p].ret.id])

\* CreatePost, lines 80-87: a failed re-fetch is a 500; else 201 and the post
HCreatePost_80(p) ==
    /\ hpc[p] = "CreatePost_79"
    /\ pc[p] = "ret"
    /\ IF frame[p].ret.err # ErrNil
       THEN Reply(p, req[p], StatusInternalServerError, "error")
       ELSE StartEncode(p, StatusCreated, "post", <<frame[p].ret.ptr>>)

\* GetAllPosts, lines 92-94
HGetAllPosts(p, r) ==
    CallStore(p, r, "GetAllPosts_94", "GetAllPosts_56",
              [IdleFrame EXCEPT !.op = "GetAllPosts", !.term = QueryTerm(r)])

\* GetAllPosts, lines 95-102
HGetAllPosts_95(p) ==
    /\ hpc[p] = "GetAllPosts_94"
    /\ pc[p] = "ret"
    /\ IF frame[p].ret.err # ErrNil
       THEN Reply(p, req[p], StatusInternalServerError, "error")
       ELSE StartEncode(p, StatusOK, "posts", frame[p].ret.list)

\* GetPost, line 107
HGetPost(p, r, id) ==
    CallStore(p, r, "GetPost_107", "GetPost_44",
              [IdleFrame EXCEPT !.op = "GetPost", !.id = id])

\* the status GetPost answers for the error of the store
GetPostStatus(err) == IF err # ErrNil THEN StatusNotFound ELSE StatusOK

\* GetPost, lines 108-115
HGetPost_108(p) ==
    /\ hpc[p] = "GetPost_107"
    /\ pc[p] = "ret"
    /\ IF frame[p].ret.err # ErrNil
       THEN Reply(p, req[p], GetPostStatus(frame[p].ret.err), "error")
       ELSE StartEncode(p, GetPostStatus(frame[p].ret.err), "post", <<frame[p].ret.ptr>>)

\* UpdatePost, lines 120-132: decode, validate, h.Store.UpdatePost(id, &post)
HUpdatePost(p, r, id) ==
    LET d == Decode(r.body)
    IN  IF d.err THEN Reply(p, r, StatusBadRequest, "error")
        ELSE IF Invalid(d.post) THEN Reply(p, r, StatusBadRequest, "error")
        ELSE CallStore(p, r, "UpdatePost_132", "UpdatePost_76",
                       [IdleFrame EXCEPT !.op = "UpdatePost", !.id = id, !.post = d.post])

\* strings.Contains(err.Error(), "not found")
IsNotFound(err) == err = ErrNotFound

\* mutant: every error of the store is a 500
ErrorStatusAlways500(err) == StatusInternalServerError

\* the status UpdatePost and DeletePost answer for an error of the store
ErrorStatus(err) ==
    IF IsNotFound(err) THEN StatusNotFound ELSE StatusInternalServerError

\* UpdatePost, lines 133-144
HUpdatePost_133(p) ==
    /\ hpc[p] = "UpdatePost_132"
    /\ pc[p] = "ret"
    /\ IF frame[p].ret.err # ErrNil
       THEN Reply(p, req[p], ErrorStatus(frame[p].ret.err), "error")
       ELSE StartEncode(p, StatusOK, "post", <<frame[p].ret.ptr>>)

\* DeletePost, line 149
HDeletePost(p, r, id) ==
    CallStore(p, r, "DeletePost_149", "DeletePost_98",
              [IdleFrame EXCEPT !.op = "DeletePost", !.id = id])

\* DeletePost, lines 150-159
HDeletePost_150(p) ==
    /\ hpc[p] = "DeletePost_149"
    /\ pc[p] = "ret"
    /\ IF frame[p].ret.err # ErrNil
       THEN Reply(p, req[p], ErrorStatus(frame[p].ret.err), "error")
       ELSE Reply(p, req[p], StatusNoContent, "empty")

\* The encoder reads the fields of the Post it is writing, in the order of the
\* struct, holding no lock; ID and CreatedAt never change once the Post is in
\* the map, so they are read together with their neighbours.
ReadField(cur, post, k) ==
    CASE k = 1 -> [cur EXCEPT !.ID = post.ID, !.Title = post.Title]
      [] k = 2 -> [cur EXCEPT !.Content = post.Content]
      [] k = 3 -> [cur EXCEPT !.Category = post.Category]
      [] k = 4 -> [cur EXCEPT !.Tags = post.Tags]
      [] k = 5 -> [cur EXCEPT !.CreatedAt = post.CreatedAt, !.UpdatedAt = post.UpdatedAt]
NumReads == 5

HEncode(p) ==
    LET i == Len(resp[p].body) + 1
        k == enc[p].k + 1
        cur == ReadField(enc[p].cur, heap[enc[p].ptrs[i]], k)
    IN  /\ hpc[p] = "encode"
        /\ IF k < NumReads
           THEN /\ enc' = [enc EXCEPT ![p].k = k, ![p].cur = cur]
                /\ UNCHANGED <<hpc, resp>>
           ELSE /\ resp' = [resp EXCEPT ![p].body = Append(@, cur)]
                /\ IF i = Len(enc[p].ptrs)
                   THEN /\ hpc' = [hpc EXCEPT ![p] = "done"]
                        /\ enc' = [enc EXCEPT ![p] = NoEnc]
                   ELSE /\ enc' = [enc EXCEPT ![p].k = 0, ![p].cur = ZeroPost]
                        /\ UNCHANGED hpc
        /\ UNCHANGED <<posts, nextID, mu, heap, clock, pc, frame, req, returned, deleted>>

\* ServeHTTP, lines 27-55, and the handler method it routes to, up to that
\* method's first store call or its error reply
ServeHTTP(p, r) ==
    LET idStr == TrimPrefix(r.path, PostsPrefix)
        parsed == ParseInt(idStr)
    IN  /\ hpc[p] = "idle"
        /\ pc[p] = "idle"
        /\ IF idStr = <<>>
           THEN CASE r.method = "GET" -> HGetAllPosts(p, r)
                  [] r.method = "POST" -> HCreatePost(p, r)
                  [] OTHER -> Reply(p, r, StatusMethodNotAllowed, "error")
           ELSE IF parsed.err
                THEN Reply(p, r, StatusBadRequest, "error")
                ELSE CASE r.method = "GET" -> HGetPost(p, r, parsed.val)
                       [] r.method = "PUT" -> HUpdatePost(p, r, parsed.val)
                       [] r.method = "DELETE" -> HDeletePost(p, r, parsed.val)
                       [] OTHER -> Reply(p, r, StatusMethodNotAllowed, "error")

\* HealthCheckHandler: 200 and {"status":"ok"}, whatever the method
HealthCheckHandler(p, r) ==
    /\ hpc[p] = "idle"
    /\ pc[p] = "idle"
    /\ Reply(p, r, StatusOK, "health")

\* the http.ServeMux of main, with the patterns "/posts/" and "/health": a
\* request for "/posts", which only the subtree pattern "/posts/" matches
\* once a slash is added, is redirected there without running a handler; a
\* path under "/posts/" goes to the PostHandler, "/health" to the health
\* check, and any other path is not found
ServeMux(p, r) ==
    IF r.path = PathPosts
    THEN /\ hpc[p] = "idle"
         /\ pc[p] = "idle"
         /\ Reply(p, r, StatusMovedPermanently, "redirect")
    ELSE IF HasPrefix(r.path, PostsPrefix)
    THEN ServeHTTP(p, r)
    ELSE IF r.path = PathHealth
    THEN HealthCheckHandler(p, r)
    ELSE /\ hpc[p] = "idle"
         /\ pc[p] = "idle"
         /\ Reply(p, r, StatusNotFound, "error")

\* a second valid body, with other text than BodyB
BodyC == MkBody(FALSE, {"title", "content"},
                [DraftB EXCEPT !.Title = <<"D">>, !.Content = <<"d">>])

\* the requests clients send at the same time: a create, every method on
\* the post with id 1, and a create sent to "/posts"
ConcurrentRequests ==
    {MkReq(m, PathOf(<<"1">>), FALSE, <<>>, NoBody) : m \in {"GET", "DELETE", "PATCH"}}
    \cup {MkReq("POST", PathOf(<<>>), FALSE, <<>>, BodyB),
          MkReq("PUT", PathOf(<<"1">>), FALSE, <<>>, BodyC),
          MkReq("PUT", PathOf(<<"1">>), FALSE, <<>>, NoBody),
          MkReq("POST", PathPosts, FALSE, <<>>, BodyB)}

\* ServeHTTP returns: the response is complete and the goroutine is free for
\* the next request
HReturn(p) ==
    /\ hpc[p] = "done"
    /\ hpc' = [hpc EXCEPT ![p] = "idle"]
    /\ req' = [req EXCEPT ![p] = NoReq]
    /\ resp' = [resp EXCEPT ![p] = NoResp]
    /\ UNCHANGED <<posts, nextID, mu, heap, clock, pc, frame, enc, returned, deleted>>

\* a step of the handler once ServeHTTP has routed goroutine p's request, the
\* list apart
KeyedHandlerStep(p) ==
    \/ HReturn(p)
    \/ HCreatePost_73(p)
    \/ HCreatePost_80(p)
    \/ HGetPost_108(p)
    \/ HUpdatePost_133(p)
    \/ HDeletePost_150(p)
    \/ HEncode(p)

\* the same, the list included
HandlerStep(p) == KeyedHandlerStep(p) \/ HGetAllPosts_95(p)

NextHandler ==
    \/ Tick
    \/ \E r \in Requests : ServeHTTP(1, r)
    \/ HandlerStep(1)
    \/ StoreStep(1)

\* PostHandler.ServeHTTP called directly, one request at a time, as the
\* handler's tests call it
SpecHandler == Init /\ [][NextHandler]_vars

NextSeq ==
    \/ Tick
    \/ \E r \in ServerRequests : ServeMux(1, r)
    \/ HandlerStep(1)
    \/ StoreStep(1)

\* the server with one request in flight at a time, over every request
SpecSeq == Init /\ [][NextSeq]_vars

Next ==
    \/ Tick
    \/ \E p \in Servers :
          \/ \E r \in ConcurrentRequests : ServeMux(p, r)
          \/ KeyedHandlerStep(p)
          \/ KeyedStoreStep(p)

\* the server: concurrent requests served by PostHandler over one MemoryStore
Spec == Init /\ [][Next]_vars

NextUntimed ==
    \E p \in Servers :
        \/ \E r \in ConcurrentRequests : ServeMux(p, r)
        \/ KeyedHandlerStep(p)
        \/ KeyedStoreStep(p)

\* the server under concurrent requests while the clock stands still
SpecUntimed == Init /\ [][NextUntimed]_vars

(***************************************************************************)
(* The claims.                                                             *)
(***************************************************************************)
ReturnedIds == {returned[i] : i \in 1..Len(returned)}

\* C1: from an empty store, the ids that NumProcs concurrent CreatePost calls
\* return are pairwise distinct, and once all have returned they are exactly
\* 1..NumProcs (checked under SpecCreate).
C1_ConcurrentCreateIds ==
    /\ \A i, j \in 1..Len(returned) : returned[i] = returned[j] => i = j
    /\ ReturnedIds \subseteq 1..NumProcs
    /\ (\A p \in Procs : pc[p] = "ret") => ReturnedIds = 1..NumProcs

C1_Witness ==
    /\ \A p \in Procs : pc[p] = "ret" /\ frame[p].op = "CreatePost"
    /\ Len(returned) = NumProcs

\* C2: over every sequence of store operations the ids CreatePost returns are
\* strictly increasing, so none is returned twice, deletes or not
\* (SpecStoreSeq).
C2_IdsStrictlyIncreasing ==
    \A i, j \in 1..Len(returned) : i < j => returned[i] < returned[j]

\* a second create takes its id after the first post was deleted
C2_Witness ==
    \E p \in Procs :
        /\ pc[p] = "CreatePost_34"
        /\ returned = <<1>>
        /\ DOMAIN posts = {}
        /\ frame[p].post.ID = 2

\* C9: when CreatePost(draft) returns id, GetPost(id) run directly after it
\* finds a post with the draft's title, content, category and tags and with
\* ID = id > 0 (SpecStoreSeq).
C9_CreateThenGet ==
    [][\A p \in Procs :
          (pc[p] = "returning" /\ frame[p].op = "CreatePost" /\ pc'[p] = "ret") =>
              LET id == frame'[p].ret.id
                  got == Lookup(posts', id)
              IN  /\ frame'[p].ret.err = ErrNil
                  /\ id > 0
                  /\ got.ok
                  /\ heap'[got.ptr].ID = id
                  /\ Fields(heap'[got.ptr]) = Fields(frame[p].post)]_vars

C9_Witness ==
    \E p \in Procs :
        /\ pc[p] = "ret"
        /\ frame[p].op = "CreatePost"
        /\ frame[p].ret.id = 2
        /\ Lookup(posts, 2).ok
        /\ Fields(heap[Lookup(posts, 2).ptr]) = Fields(DraftA)

\* C10: right after CreatePost has stored a post, that post's createdAt equals
\* its updatedAt, however the clock advances while CreatePost runs
\* (SpecStoreSeq).
C10_CreatedAtEqualsUpdatedAt ==
    \A p \in Procs :
        pc[p] = "CreatePost_39" =>
            heap[frame[p].ptr].CreatedAt = heap[frame[p].ptr].UpdatedAt

\* the posts a valid body decodes to
ValidDrafts ==
    {Decode(b).post : b \in {c \in Bodies \cup {BodyC} :
                                ~Decode(c).err /\ ~Invalid(Decode(c).post)}}

\* C3: the posts a handler writes into its response are copies: the title,
\* content, category and tags of each come from one state of the post, that
\* is from one accepted draft, never partly from the draft of an update that
\* runs while the response is written (Spec).
C3_ResponseFromOneState ==
    \A p \in Procs :
        hpc[p] = "done" =>
            \A i \in 1..Len(resp[p].body) :
                \E d \in ValidDrafts : Fields(resp[p].body[i]) = Fields(d)

\* C4: with the in-memory store no request is ever answered 500 (Spec).
C4_NoInternalError ==
    \A p \in Procs : resp[p].status # StatusInternalServerError

\* a body that is well-formed and has a title and a content
GoodBody(b) ==
    /\ ~b.malformed
    /\ "title" \in b.has /\ b.val.Title # <<>>
    /\ "content" \in b.has /\ b.val.Content # <<>>

\* C5: a request whose path is exactly "/posts" is answered: GET, 200 with
\* the posts; POST with a valid body, 201 with the created post; any other
\* method, 405 (SpecHandler).
C5_CollectionPath ==
    \A p \in Procs :
        (hpc[p] = "done" /\ req[p].path = PathPosts) =>
            CASE req[p].method = "GET" ->
                     resp[p].status = StatusOK /\ resp[p].kind = "posts"
              [] req[p].method = "POST" ->
                     GoodBody(req[p].body) =>
                         /\ resp[p].status = StatusCreated
                         /\ resp[p].kind = "post"
              [] OTHER -> resp[p].status = StatusMethodNotAllowed

\* the decimal form of a non-negative 64-bit integer: digits only, at most 2^63 - 1
IsNonNegativeInt64(token) ==
    /\ token # <<>>
    /\ \A i \in 1..Len(token) : IsDigit(token[i])
    /\ FitsInt64(StripZeros(token), FALSE)

\* C6: a request for "/posts/<token>" whose token is not the decimal form of
\* a non-negative 64-bit integer is answered 400, whatever the method and the
\* store, and never reaches the store (SpecSeq).
C6_BadTokenIs400 ==
    \A p \in Procs :
        LET token == TrimPrefix(req[p].path, PostsPrefix)
        IN  (/\ hpc[p] # "idle"
             /\ HasPrefix(req[p].path, PostsPrefix)
             /\ token # <<>>
             /\ ~IsNonNegativeInt64(token)) =>
                /\ hpc[p] = "done"
                /\ pc[p] = "idle"
                /\ resp[p].status = StatusBadRequest

\* the request's path is "/posts/<id>" and the id parses
IdRoute(r) ==
    /\ HasPrefix(r.path, PostsPrefix)
    /\ TrimPrefix(r.path, PostsPrefix) # <<>>
    /\ ~ParseInt(TrimPrefix(r.path, PostsPrefix)).err
IdOf(r) == ParseInt(TrimPrefix(r.path, PostsPrefix)).val

\* goroutine p takes a step of ServeHTTP that ends the request at once
RepliesAtOnce(p) == hpc[p] = "idle" /\ hpc'[p] = "done"

\* C7, the store's part: the method consults the map once, under the lock;
\* it fails with not found exactly when the id is not live then, and a
\* delete of a live id removes it and nothing else
C7_Consult(p) ==
    LET id == frame[p].id
        live == id \in DOMAIN posts
    IN  (/\ hpc[p] \in {"GetPost_107", "UpdatePost_132", "DeletePost_149"}
         /\ pc[p] \in {"GetPost_47", "UpdatePost_79", "DeletePost_101"}
         /\ pc'[p] # pc[p]) =>
            /\ id = IdOf(req[p])
            /\ frame'[p].ret.err = (IF live THEN ErrNil ELSE ErrNotFound)
            /\ DOMAIN posts' =
                   (IF pc[p] = "DeletePost_101" THEN DOMAIN posts \ {id} ELSE DOMAIN posts)

\* C7, the handler's part: the status follows from what the store answered
C7_Answer(p) ==
    LET found == frame[p].ret.err = ErrNil
    IN  (/\ hpc[p] \in {"GetPost_107", "UpdatePost_132", "DeletePost_149"}
         /\ pc[p] = "ret"
         /\ hpc'[p] # hpc[p]) =>
            /\ IdRoute(req[p])
            /\ req[p].method =
                   (CASE hpc[p] = "GetPost_107" -> "GET"
                      [] hpc[p] = "UpdatePost_132" -> "PUT"
                      [] hpc[p] = "DeletePost_149" -> "DELETE")
            /\ resp'[p].status =
                   (IF ~found THEN StatusNotFound
                    ELSE IF hpc[p] = "DeletePost_149" THEN StatusNoContent
                    ELSE StatusOK)
            /\ (found /\ hpc[p] # "DeletePost_149") =>
                   /\ resp'[p].kind = "post"
                   /\ enc'[p].ptrs = <<frame[p].ret.ptr>>
                   /\ heap[frame[p].ret.ptr].ID = IdOf(req[p])

\* C7, the other methods: 405 at once, the store untouched
C7_OtherMethods(p) ==
    (/\ RepliesAtOnce(p)
     /\ IdRoute(req'[p])
     /\ req'[p].method \notin {"GET", "PUT", "DELETE"}) =>
        /\ resp'[p].status = StatusMethodNotAllowed
        /\ pc'[p] = "idle"
        /\ UNCHANGED <<posts, nextID, heap, mu>>

\* what a request for "/posts/<id>" whose id parses has been routed to
C7_Routed ==
    \A p \in Procs :
        (hpc[p] # "idle" /\ IdRoute(req[p])) =>
            CASE req[p].method = "GET" -> hpc[p] \in {"GetPost_107", "encode", "done"}
              [] req[p].method = "PUT" -> hpc[p] \in {"UpdatePost_132", "encode", "done"}
              [] req[p].method = "DELETE" -> hpc[p] \in {"DeletePost_149", "done"}
              [] OTHER -> hpc[p] = "done" /\ resp[p].status = StatusMethodNotAllowed

\* C7: for "/posts/<id>" with an id that parses, GET answers 200 with the
\* post if the id is live when the store is consulted and 404 otherwise; PUT
\* with a valid body 200 with the post or 404; DELETE 204, removing the post,
\* or 404; every other method 405 without touching the store (SpecUntimed).
C7_IdRoutes ==
    /\ []C7_Routed
    /\ [][\A p \in Procs : C7_Consult(p) /\ C7_Answer(p) /\ C7_OtherMethods(p)]_vars

\* one request deleted post 1 and was answered 204, the other asked for it
\* after that and was answered 404
C7_Witness ==
    \E p, q \in Procs :
        /\ hpc[p] = "done" /\ req[p].method = "DELETE" /\ IdRoute(req[p])
        /\ resp[p].status = StatusNoContent
        /\ hpc[q] = "done" /\ req[q].method = "PUT" /\ IdRoute(req[q])
        /\ resp[q].status = StatusNotFound

\* a request routed to create, or to update with an id that parses
DecodesBody(r) ==
    \/ r.method = "POST" /\ r.path = PathOf(<<>>)
    \/ r.method = "PUT" /\ IdRoute(r)

\* C8: a create or update whose body is malformed or lacks a title or a
\* content is answered 400 before the store is touched: no store method is
\* called and the collection and the id counter stay as they are, whether or
\* not the id of the update is live (SpecSeq).
C8_ValidationFirst ==
    /\ [](\A p \in Procs :
             (hpc[p] # "idle" /\ DecodesBody(req[p]) /\ ~GoodBody(req[p].body)) =>
                 /\ hpc[p] = "done"
                 /\ pc[p] = "idle"
                 /\ resp[p].status = StatusBadRequest)
    /\ [][\A p \in Procs :
             (RepliesAtOnce(p) /\ DecodesBody(req'[p]) /\ ~GoodBody(req'[p].body)) =>
                 UNCHANGED <<posts, nextID, heap, mu>>]_vars

\* an update without a title for id 2, which is not live while post 1 is: 400
C8_Witness ==
    \E p \in Procs :
        /\ hpc[p] = "done"
        /\ req[p].method = "PUT"
        /\ req[p].path = PathOf(<<"2">>)
        /\ req[p].body = BodyNoTitle
        /\ resp[p].status = StatusBadRequest
        /\ DOMAIN posts = {1}

\* the lines of UpdatePost between its lookup and its return
UpdateLines == {"UpdatePost_79", "UpdatePost_85", "UpdatePost_86", "UpdatePost_87",
                "UpdatePost_88", "UpdatePost_89"}

\* C11, the frame: no step of UpdatePost(id, draft) on a live id changes the
\* post's id or createdAt or moves its updatedAt back, and the step that
\* stamps updatedAt gives it the time of the clock
C11_Frame(p) ==
    LET got == Lookup(posts, frame[p].id)
    IN  (pc[p] \in UpdateLines /\ pc'[p] # pc[p] /\ got.ok) =>
            /\ Lookup(posts', frame[p].id) = got
            /\ heap'[got.ptr].ID = heap[got.ptr].ID
            /\ heap'[got.ptr].CreatedAt = heap[got.ptr].CreatedAt
            /\ heap'[got.ptr].UpdatedAt >= heap[got.ptr].UpdatedAt
            /\ pc[p] = "UpdatePost_89" => heap'[got.ptr].UpdatedAt = clock

\* C11, the effect: when UpdatePost is about to return the post, the stored
\* post has the draft's four fields and is the post returned
C11_Effect ==
    \A p \in Procs :
        pc[p] = "UpdatePost_93" =>
            LET got == Lookup(posts, frame[p].id)
            IN  /\ got.ok
                /\ frame[p].ret = [NoRet EXCEPT !.ptr = got.ptr]
                /\ heap[got.ptr].ID = frame[p].id
                /\ Fields(heap[got.ptr]) = Fields(frame[p].post)

\* C11: UpdatePost(id, draft) on a live id replaces title, content, category
\* and tags with the draft's, leaves the id and createdAt as they were and
\* sets updatedAt to a value >= the previous one, after any sequence of
\* operations and however often repeated (SpecStoreSeq).
C11_UpdateReplacesFields ==
    /\ []C11_Effect
    /\ [][\A p \in Procs : C11_Frame(p)]_vars

\* post 1 was created from DraftA at time 1 and updated with DraftB at time 2
C11_Witness ==
    \E p \in Procs :
        /\ pc[p] = "UpdatePost_93"
        /\ frame[p].id = 1
        /\ Fields(heap[posts[1]]) = Fields(DraftB)
        /\ heap[posts[1]].Category # DraftA.Category
        /\ heap[posts[1]].CreatedAt = 1
        /\ heap[posts[1]].UpdatedAt = 2

\* C12: every step of UpdatePost(id, draft) with an id that is not live
\* leaves the map, the posts and the id counter as they are, and the call
\* returns not found (SpecStoreSeq).
C12_UpdateMissingIsNoOp ==
    [][\A p \in Procs :
          (/\ frame[p].op = "UpdatePost"
           /\ pc[p] \in {"UpdatePost_76", "UpdatePost_79", "UpdatePost_81", "returning"}
           /\ pc'[p] # pc[p]
           /\ frame[p].id \notin DOMAIN posts) =>
              /\ UNCHANGED <<posts, heap, nextID>>
              /\ pc[p] = "UpdatePost_79" =>
                     pc'[p] = "UpdatePost_81" /\ frame'[p].ret.err = ErrNotFound
              /\ pc[p] = "UpdatePost_81" =>
                     pc'[p] = "returning" /\ frame'[p].ret.err = ErrNotFound
              /\ pc[p] = "returning" =>
                     pc'[p] = "ret" /\ frame'[p].ret = [NoRet EXCEPT !.err = ErrNotFound]]_vars

\* an update of post 1, which was deleted while post 2 is live, has failed
C12_Witness ==
    \E p \in Procs :
        /\ pc[p] = "UpdatePost_81"
        /\ frame[p].id = 1
        /\ 1 \in deleted
        /\ DOMAIN posts = {2}
        /\ frame[p].ret.err = ErrNotFound

\* C13, the operations: a successful delete removes the id; a get, update or
\* delete of a deleted id fails with not found and changes nothing; a list
\* returns no deleted id
C13_Operations(p) ==
    LET id == frame[p].id
    IN  /\ (pc[p] = "DeletePost_101" /\ pc'[p] = "DeletePost_107") =>
               id \in deleted' /\ id \notin DOMAIN posts'
        /\ (/\ pc[p] \in {"GetPost_47", "UpdatePost_79", "DeletePost_101"}
            /\ pc'[p] # pc[p]
            /\ id \in deleted) =>
               /\ frame'[p].ret.err = ErrNotFound
               /\ pc'[p] \in {"GetPost_49", "UpdatePost_81", "DeletePost_103"}
               /\ UNCHANGED <<posts, heap, nextID>>
        /\ (pc[p] = "GetAllPosts_59" /\ pc'[p] # pc[p]) =>
               \A i \in 1..Len(frame'[p].ret.list) :
                   heap[frame'[p].ret.list[i]].ID \notin deleted

\* C13: once DeletePost(id) has removed a post, id is never live again,
\* whatever is created afterwards: every later get, update and delete of id
\* fails with not found and no list contains it (SpecStoreSeq).
C13_DeletionIsPermanent ==
    /\ [](\A id \in deleted : id \notin DOMAIN posts)
    /\ [][\A p \in Procs : C13_Operations(p)]_vars

\* post 1 was deleted, post 2 created after that, and a second delete of
\* post 1 has failed
C13_Witness ==
    \E p \in Procs :
        /\ pc[p] = "DeletePost_103"
        /\ frame[p].id = 1
        /\ frame[p].ret.err = ErrNotFound
        /\ deleted = {1}
        /\ DOMAIN posts = {2}

\* two characters that are the same letter, whatever their case
SameLetter(a, b) ==
    \/ a = b
    \/ \E i \in 1..Len(Upper) : {a, b} = {Upper[i], Lower[i]}

\* text contains term when case is ignored
ContainsIgnoringCase(text, term) ==
    \E i \in 0..(Len(text) - Len(term)) :
        \A k \in 1..Len(term) : SameLetter(text[i + k], term[k])

\* the live ids a search for term is to return
Wanted(term) ==
    {id \in DOMAIN posts :
        \/ term = <<>>
        \/ ContainsIgnoringCase(heap[posts[id]].Title, term)
        \/ ContainsIgnoringCase(heap[posts[id]].Content, term)
        \/ ContainsIgnoringCase(heap[posts[id]].Category, term)}

\* C14: GetAllPosts(term) returns, without error and each once, exactly the
\* live posts whose title, content or category contains term when case is
\* ignored, and every live post when term is empty; tags do not count, and
\* the result is empty when nothing matches (SpecStoreSeq).
C14_ListReturnsMatches ==
    \A p \in Procs :
        pc[p] = "GetAllPosts_71" =>
            LET list == frame[p].ret.list
            IN  /\ frame[p].ret.err = ErrNil
                /\ \A i, j \in 1..Len(list) : list[i] = list[j] => i = j
                /\ {list[i] : i \in 1..Len(list)} = {posts[id] : id \in Wanted(frame[p].term)}

\* both drafts are live, and a search for "gO" has returned only the post
\* titled "Go"
C14_Witness ==
    \E p \in Procs :
        /\ pc[p] = "GetAllPosts_71"
        /\ frame[p].term = <<"g", "O">>
        /\ Cardinality(DOMAIN posts) = 2
        /\ Len(frame[p].ret.list) = 1
        /\ heap[frame[p].ret.list[1]].Title = <<"G", "o">>

\* C16: every live post has id > 0 and createdAt <= updatedAt, is stored
\* under the key equal to its id, and has an id below the id counter
\* (SpecStoreSeq).
C16_StoreInvariant ==
    \A id \in DOMAIN posts :
        /\ id > 0
        /\ id < nextID
        /\ heap[posts[id]].ID = id
        /\ heap[posts[id]].CreatedAt <= heap[posts[id]].UpdatedAt

\* post 1 is gone and post 2, created at time 1, was updated at time 2
C16_Witness ==
    /\ DOMAIN posts = {2}
    /\ 1 \in deleted
    /\ heap[posts[2]].CreatedAt = 1
    /\ heap[posts[2]].UpdatedAt = 2
    /\ Fields(heap[posts[2]]) = Fields(DraftB)
    /\ \A p \in Procs : pc[p] = "idle"


\* the ids CreatePost has returned whose post no DeletePost has removed
Created == ReturnedIds \ deleted

\* C15, the operations: a get, update or delete that consults the map for
\* such an id finds it, and a list returns it when its term is empty or
\* matches
C15_Sees(p) ==
    /\ (/\ pc[p] \in {"GetPost_47", "UpdatePost_79", "DeletePost_101"}
        /\ pc'[p] # pc[p]
        /\ frame[p].id \in Created) =>
           /\ frame'[p].ret.err = ErrNil
           /\ pc'[p] \in {"GetPost_51", "UpdatePost_85", "DeletePost_107"}
    /\ (pc[p] = "GetAllPosts_59" /\ pc'[p] # pc[p]) =>
           \A i \in Created \cap Wanted(frame[p].term) :
               \E k \in 1..Len(frame'[p].ret.list) :
                   heap[frame'[p].ret.list[k]].ID = i

\* C15: once CreatePost has returned id i, and until a DeletePost removes
\* post i, the post is in the store under i, so every get, update and delete
\* of i finds it and every list with an empty or matching term contains it,
\* whatever other callers do at the same time (SpecStoreUntimed).
C15_CreatedIsVisible ==
    /\ [](\A i \in Created : i \in DOMAIN posts /\ heap[posts[i]].ID = i)
    /\ [][\A p \in Procs : C15_Sees(p)]_vars

\* a get has found post 2 while the other caller is deleting post 1
C15_Witness ==
    \E p, q \in Procs :
        /\ pc[p] = "GetPost_51"
        /\ frame[p].id = 2
        /\ 2 \in Created
        /\ frame[p].ret.ptr = posts[2]
        /\ pc[q] = "DeletePost_98"
        /\ frame[q].id = 1
        /\ 1 \in Created

\* the lines at which a method holds s.mu exclusively, and shared
WriteSection ==
    {"CreatePost_32", "CreatePost_34", "CreatePost_39", "UpdatePost_79", "UpdatePost_81",
     "UpdatePost_85", "UpdatePost_86", "UpdatePost_87", "UpdatePost_88", "UpdatePost_89",
     "UpdatePost_93", "DeletePost_101", "DeletePost_103", "DeletePost_107"}
ReadSection == {"GetPost_47", "GetPost_49", "GetPost_51", "GetAllPosts_59", "GetAllPosts_71"}

\* C18, exclusion: a goroutine inside a mutating method's critical section
\* holds the lock exclusively and no other goroutine is inside any critical
\* section; one inside a reading method's critical section holds it shared
C18_Exclusion ==
    \A p \in Procs :
        /\ pc[p] \in WriteSection =>
               /\ mu.writer = p
               /\ mu.readers = {}
               /\ \A q \in Procs \ {p} : pc[q] \notin WriteSection \cup ReadSection
        /\ pc[p] \in ReadSection =>
               /\ p \in mu.readers
               /\ mu.writer = NoProc

\* C18, the accesses: the map, the posts and the id counter change only in
\* a step of the goroutine that holds the lock exclusively, and the steps
\* that consult the map are taken holding the lock; a reading method changes
\* none of them
C18_Accesses ==
    /\ <<posts, nextID, heap>>' # <<posts, nextID, heap>> =>
           \E p \in Procs :
               /\ mu.writer = p
               /\ pc[p] \in WriteSection
               /\ pc'[p] # pc[p]
               /\ frame[p].op \in {"CreatePost", "UpdatePost", "DeletePost"}
    /\ \A p \in Procs :
           (frame[p].op \in {"GetPost", "GetAllPosts"} /\ pc'[p] # pc[p]) =>
               UNCHANGED <<posts, nextID, heap>>

\* C18: CreatePost, UpdatePost and DeletePost touch the map and the id
\* counter only while they hold s.mu exclusively, GetPost and GetAllPosts
\* only read them and only while they hold it shared, and a mutating method
\* is never inside its critical section together with another method
\* (SpecStoreUntimed).
C18_LockDiscipline ==
    /\ []C18_Exclusion
    /\ [][C18_Accesses]_vars

\* two readers are inside their critical sections together
C18_Witness ==
    \E p, q \in Procs :
        /\ p # q
        /\ pc[p] = "GetPost_47"
        /\ pc[q] = "GetAllPosts_59"
        /\ mu.readers = {p, q}
        /\ DOMAIN posts # {}


\* C17, create: the post CreatePost stores has the counter's value as id,
\* the clock's values as timestamps and the body's title, content, category
\* and tags; what the body says about id and timestamps has no part in it
C17_Create(p) ==
    LET d == Decode(req[p].body).post
    IN  /\ (hpc[p] = "CreatePost_72" /\ pc[p] = "CreatePost_32" /\ pc'[p] # pc[p]) =>
               frame'[p].post = [d EXCEPT !.ID = nextID, !.CreatedAt = clock,
                                          !.UpdatedAt = frame[p].post.UpdatedAt]
        /\ (hpc[p] = "CreatePost_72" /\ pc[p] = "CreatePost_34" /\ pc'[p] # pc[p]) =>
               /\ frame[p].post.ID = nextID
               /\ frame[p].post.CreatedAt \in 1..clock
               /\ heap' = Append(heap, MkPost(nextID, d.Title, d.Content, d.Category, d.Tags,
                                              frame[p].post.CreatedAt, clock))
               /\ posts' = MapPut(posts, nextID, Len(heap) + 1)

\* C17, update: UpdatePost leaves the id and createdAt of the stored post,
\* writes the body's four fields and stamps updatedAt from the clock
C17_Update(p) ==
    LET d == Decode(req[p].body).post
        a == posts[IdOf(req[p])]
    IN  (hpc[p] = "UpdatePost_132" /\ pc[p] \in UpdateLines \ {"UpdatePost_79"}
         /\ pc'[p] # pc[p]) =>
            /\ posts' = posts
            /\ \A b \in DOMAIN heap \ {a} : heap'[b] = heap[b]
            /\ heap'[a].ID = heap[a].ID
            /\ heap'[a].CreatedAt = heap[a].CreatedAt
            /\ heap'[a].UpdatedAt = (IF pc[p] = "UpdatePost_89" THEN clock ELSE heap[a].UpdatedAt)
            /\ pc[p] = "UpdatePost_89" => Fields(heap'[a]) = Fields(d)

\* C17, the response: the post in a 200 or 201 response is the stored post
C17_Response ==
    \A p \in Procs :
        (hpc[p] = "done" /\ resp[p].kind = "post") =>
            /\ Len(resp[p].body) = 1
            /\ resp[p].body[1].ID \in DOMAIN posts
            /\ resp[p].body[1] = heap[posts[resp[p].body[1].ID]]
            /\ req[p].method # "POST" => resp[p].body[1].ID = IdOf(req[p])

\* C17: the stored post and the response of a create or update are a
\* function of the store, the clock and the body's title, content, category
\* and tags: the id, createdAt and updatedAt a client puts in the body change
\* neither (SpecSeq).
C17_ClientCannotSetIdOrTimes ==
    /\ []C17_Response
    /\ [][\A p \in Procs : C17_Create(p) /\ C17_Update(p)]_vars

\* post 1, created at time 1, was updated at time 2 by a body that claims
\* id 2 and other timestamps; the response shows the store's values
C17_Witness ==
    \E p \in Procs :
        /\ hpc[p] = "done"
        /\ req[p].method = "PUT"
        /\ req[p].body = BodyForged
        /\ resp[p].status = StatusOK
        /\ resp[p].body = <<MkPost(1, DraftB.Title, DraftB.Content, DraftB.Category,
                                   DraftB.Tags, 1, 2)>>

\* C20: GetPost, GetAllPosts and a DeletePost of an id that is not live
\* change neither the map nor any post nor the id counter, and a request
\* answered 400 or 405 is answered before any store method is called and
\* changes none of them either (SpecSeq).
C20_FailuresChangeNothing ==
    [][\A p \in Procs :
          /\ (frame[p].op \in {"GetPost", "GetAllPosts"} /\ pc'[p] # pc[p]) =>
                 UNCHANGED <<posts, heap, nextID>>
          /\ (/\ frame[p].op = "DeletePost"
              /\ pc'[p] # pc[p]
              /\ frame[p].id \notin DOMAIN posts) =>
                 /\ UNCHANGED <<posts, heap, nextID>>
                 /\ pc[p] = "DeletePost_101" => frame'[p].ret.err = ErrNotFound
          /\ (/\ hpc[p] # "done"
              /\ hpc'[p] = "done"
              /\ resp'[p].status \in {StatusBadRequest, StatusMethodNotAllowed}) =>
                 /\ hpc[p] = "idle"
                 /\ pc'[p] = "idle"
                 /\ UNCHANGED <<posts, heap, nextID, mu>>]_vars

\* a create without content was answered 400 and the counter still stands
\* at 2, after the one post created
C20_Witness ==
    \E p \in Procs :
        /\ hpc[p] = "done"
        /\ req[p].method = "POST"
        /\ req[p].path = PathOf(<<>>)
        /\ req[p].body = BodyNoContent
        /\ resp[p].status = StatusBadRequest
        /\ DOMAIN posts = {1}
        /\ nextID = 2


\* the lines of the store's methods
InMethod(p) == pc[p] \notin {"idle", "ret"}

\* C19, one lock, released on return: a goroutine outside the methods holds
\* the lock in no mode and waits for it in no way; one inside holds it in
\* at most one mode
C19_ReleasedOnReturn ==
    \A p \in Procs :
        /\ (~InMethod(p) \/ pc[p] = "returning") =>
               /\ mu.writer # p
               /\ p \notin mu.readers \cup mu.blocked
               /\ ~InQueue(mu, p)
        /\ ~(mu.writer = p /\ p \in mu.readers)

\* C19: under fair scheduling every store operation that has started
\* returns, whichever other operations keep being started: a writer is not
\* held off by readers that keep coming, nor a reader by writers that keep
\* coming; and each operation holds the one lock at most once and has
\* released it when it returns (SpecFair).
C19_EveryCallReturns ==
    /\ []C19_ReleasedOnReturn
    /\ \A p \in Procs : InMethod(p) ~> (pc[p] = "ret")

\* a writer has announced itself and waits for a reader that is inside,
\* while a reader that came later sleeps
C19_Witness ==
    \E w, r1, r2 \in Procs :
        /\ r1 # r2
        /\ mu.announced /\ Head(mu.queue) = w /\ mu.writer = NoProc
        /\ pc[w] \in DOMAIN AfterLock
        /\ pc[r1] \in ReadSection /\ r1 \in mu.readers
        /\ pc[r2] \in DOMAIN AfterRLock /\ r2 \in mu.blocked


\* the live posts other than i are where they were and as they were
OthersKept(i) ==
    \A j \in DOMAIN posts \ {i} :
        /\ j \in DOMAIN posts'
        /\ posts'[j] = posts[j]
        /\ heap'[posts[j]] = heap[posts[j]]

\* C21, update: no step of an UpdatePost that found post i changes the set
\* of live ids, the id counter or a post other than i
C21_Update(p) ==
    (/\ pc[p] \in UpdateLines
     /\ pc'[p] # pc[p]
     /\ frame[p].id \in DOMAIN posts) =>
        /\ DOMAIN posts' = DOMAIN posts
        /\ nextID' = nextID
        /\ OthersKept(frame[p].id)

\* C21, delete: the step of a DeletePost that found post i removes i from
\* the live ids and changes nothing else
C21_Delete(p) ==
    (/\ pc[p] \in {"DeletePost_101", "DeletePost_107"}
     /\ pc'[p] # pc[p]) =>
        /\ DOMAIN posts' = DOMAIN posts \ {frame[p].id}
        /\ nextID' = nextID
        /\ heap' = heap
        /\ OthersKept(frame[p].id)

\* C21, create: the steps of CreatePost add one live id, the one returned,
\* and change no post that was live
C21_Create(p) ==
    /\ (pc[p] = "CreatePost_32" /\ pc'[p] # pc[p]) =>
           UNCHANGED <<posts, heap, nextID>>
    /\ (pc[p] = "CreatePost_34" /\ pc'[p] # pc[p]) =>
           /\ frame'[p].ret.id \notin DOMAIN posts
           /\ DOMAIN posts' = DOMAIN posts \cup {frame'[p].ret.id}
           /\ posts'[frame'[p].ret.id] \notin {posts[j] : j \in DOMAIN posts}
           /\ OthersKept(frame'[p].ret.id)
    /\ (pc[p] = "CreatePost_39" /\ pc'[p] # pc[p]) =>
           UNCHANGED <<posts, heap, nextID>>

\* C21: a successful UpdatePost(i, _) or DeletePost(i) leaves every other
\* live post, and the id counter, as they were, and changes the set of live
\* ids only by removing i when it is a delete; a successful CreatePost adds
\* exactly one post and changes none that was there (SpecStoreSeq).
C21_OnlyThePostNamed ==
    [][\A p \in Procs : C21_Update(p) /\ C21_Delete(p) /\ C21_Create(p)]_vars

\* posts 1 and 2 were created at time 1, post 2 from DraftB; post 1 has
\* now been updated with DraftA at time 2 and post 2 is as it was
C21_Witness ==
    \E p \in Procs :
        /\ pc[p] = "UpdatePost_93"
        /\ frame[p].id = 1
        /\ DOMAIN posts = {1, 2}
        /\ heap[posts[1]].UpdatedAt = 2
        /\ heap[posts[2]] = [DraftB EXCEPT !.ID = 2, !.CreatedAt = 1, !.UpdatedAt = 1]
        /\ Fields(heap[posts[1]]) = Fields(DraftA)


====
